---- MODULE Spec2Model ----
(***************************************************************************)
(* Lifecycle model of the BespokeAI 3D viewer widget                       *)
(* (web/bespokeai_3d_viewer.js): the module-level Three.js loader, one     *)
(* BespokeAI3DViewerWidget owned by one host node, the host callbacks      *)
(* onNodeCreated / onExecuted / onRemoved, and the asynchronous            *)
(* continuations they leave behind (module imports, the 100 ms poll of     *)
(* loadThreeJS, GLTF fetches, requestAnimationFrame callbacks).            *)
(*                                                                         *)
(* JavaScript is single threaded: a step of the model is one macrotask     *)
(* (a host callback, a timer, a settled import or fetch, a frame           *)
(* callback) together with the microtasks it queues, i.e. the code runs    *)
(* from one real suspension point to the next.  An await of an already     *)
(* settled promise is not a suspension point for other macrotasks.         *)
(***************************************************************************)
EXTENDS Integers, Sequences, FiniteSets, TLC

(* ------------------------------ bounds --------------------------------- *)
\* loadModel calls that get past the same-source check
MaxLoads == 2
\* distinct retrieval URLs the host may hand over
MaxUrls == 2
\* dispose() calls the host's removals make on one renderer
MaxDisposals == 2
\* bounding boxes have integer corners in -MaxCoord..MaxCoord
MaxCoord == 2
\* execution-complete messages with a mesh the preview node receives
MaxMessages == 2

Urls == 1..MaxUrls
NodeId == 1

(* ---------------------- fetched scene documents ------------------------ *)
\* texture slots of a material; clearModel only looks at "map"
Slots == {"map", "normalMap"}

Mat(slots) == [textures |-> slots]
Node(g, kind, mats) == [geometry |-> g, material |-> kind, mats |-> mats]

\* gltf.scene of three documents, each as its traversal order of nodes
Scenes ==
  << << Node(TRUE, "single", <<Mat({"map"})>>) >>,
     << Node(FALSE, "none", <<>>),
        Node(TRUE, "array", <<Mat({"map", "normalMap"}), Mat({})>>) >>,
     << Node(TRUE, "single", <<Mat({"normalMap"})>>),
        Node(TRUE, "none", <<>>) >> >>

\* the document served at a URL (sources are immutable once generated)
Content(url) == Scenes[((url - 1) % Len(Scenes)) + 1]

Res(m, n, kind, j, slot) == [model |-> m, node |-> n, kind |-> kind, mat |-> j, slot |-> slot]

\* every GPU-side resource held by model m loaded from url
Resources(m, url) ==
  LET doc == Content(url) IN
  UNION { ( IF doc[n].geometry THEN {Res(m, n, "geometry", 0, "")} ELSE {} )
          \cup { Res(m, n, "material", j, "") : j \in DOMAIN doc[n].mats }
          \cup { Res(m, n, "texture", j, s) :
                   <<j, s>> \in { js \in (DOMAIN doc[n].mats) \X Slots :
                                    js[2] \in doc[n].mats[js[1]].textures } }
        : n \in DOMAIN doc }

(* ------------------------- centering and scaling ----------------------- *)
\* A JavaScript number is a fraction n/d with d >= 0: d > 0 is a finite
\* value, 1/0 and -1/0 are +Infinity and -Infinity, 0/0 is NaN.
Num(n, d) == [n |-> n, d |-> d]
NaN == Num(0, 0)
Sign(k) == IF k > 0 THEN 1 ELSE IF k < 0 THEN -1 ELSE 0
IsNaN(a) == a.d = 0 /\ a.n = 0
IsFinite(a) == a.d > 0

Mul(a, b) ==
  IF IsNaN(a) \/ IsNaN(b) THEN NaN
  ELSE IF a.d = 0 \/ b.d = 0 THEN Num(Sign(a.n) * Sign(b.n), 0)
  ELSE Num(a.n * b.n, a.d * b.d)

Add(a, b) ==
  IF IsNaN(a) \/ IsNaN(b) THEN NaN
  ELSE IF a.d = 0 /\ b.d = 0 THEN (IF a.n = b.n THEN a ELSE NaN)
  ELSE IF a.d = 0 THEN a
  ELSE IF b.d = 0 THEN b
  ELSE Num(a.n * b.d + b.n * a.d, a.d * b.d)

Neg(a) == Num(-a.n, a.d)
Sub(a, b) == Add(a, Neg(b))

\* a / b for finite a and b
Div(a, b) ==
  IF b.n = 0 THEN Num(Sign(a.n), 0)
  ELSE Num(a.n * b.d * Sign(b.n), a.d * b.n * Sign(b.n))

\* a === b
Eq(a, b) ==
  IF IsFinite(a) /\ IsFinite(b) THEN a.n * b.d = b.n * a.d
  ELSE ~IsNaN(a) /\ ~IsNaN(b) /\ a.d = 0 /\ b.d = 0 /\ a.n = b.n

\* a < b
Less(a, b) ==
  IF IsNaN(a) \/ IsNaN(b) THEN FALSE
  ELSE IF IsFinite(a) /\ IsFinite(b) THEN a.n * b.d < b.n * a.d
  ELSE IF a.d = 0 THEN a.n < 0 /\ ~Eq(a, b)
  ELSE b.n > 0

\* Math.max(a, b) and Math.min(a, b): NaN if either is NaN
Max2(a, b) == IF IsNaN(a) \/ IsNaN(b) THEN NaN ELSE IF Less(a, b) THEN b ELSE a
Min2(a, b) == IF IsNaN(a) \/ IsNaN(b) THEN NaN ELSE IF Less(b, a) THEN b ELSE a

Axes == {"x", "y", "z"}
Vec(f) == [a \in Axes |-> f]
Coords == (-MaxCoord)..MaxCoord

\* THREE.Box3: an empty box has min = +Infinity and max = -Infinity
EmptyBox == [min |-> Vec(Num(1, 0)), max |-> Vec(Num(-1, 0))]
isEmpty(box) == \E a \in Axes : Less(box.max[a], box.min[a])

\* Box3.getCenter and Box3.getSize
getCenter(box) ==
  IF isEmpty(box) THEN Vec(Num(0, 1))
  ELSE [a \in Axes |-> Mul(Add(box.min[a], box.max[a]), Num(1, 2))]
getSize(box) ==
  IF isEmpty(box) THEN Vec(Num(0, 1))
  ELSE [a \in Axes |-> Sub(box.max[a], box.min[a])]

\* the boxes Box3.setFromObject finds for parsed documents: integer
\* corners, or empty when the document has no geometry
Boxes ==
  { [min |-> [a \in Axes |-> Num(lo[a], 1)], max |-> [a \in Axes |-> Num(hi[a], 1)]] :
      <<lo, hi>> \in { lh \in [Axes -> Coords] \X [Axes -> Coords] :
                         \A a \in Axes : lh[1][a] <= lh[2][a] } }
  \cup {EmptyBox}

\* a placement that moves the model by -center without scaling the offset
CenterAndScale_UnscaledOffset(box) ==
  LET center == getCenter(box)
      size == getSize(box)
      maxDim == Max2(Max2(size["x"], size["y"]), size["z"])
  IN [scale |-> Div(Num(2, 1), maxDim),
      position |-> [a \in Axes |-> Neg(center[a])]]

\* loadModel, "Center and scale": the scale and position given to the model
CenterAndScale(box) ==
  LET center == getCenter(box)
      size == getSize(box)
      maxDim == Max2(Max2(size["x"], size["y"]), size["z"])
      scale == Div(Num(2, 1), maxDim)
  IN [scale |-> scale,
      position |-> [a \in Axes |-> Mul(Neg(center[a]), scale)]]

\* Box3.setFromObject on the model after it got transform t: the box of the
\* transformed corners (a model without geometry still has an empty box)
Recomputed(box, t) ==
  IF isEmpty(box) THEN EmptyBox
  ELSE LET lo == [a \in Axes |-> Add(Mul(t.scale, box.min[a]), t.position[a])]
           hi == [a \in Axes |-> Add(Mul(t.scale, box.max[a]), t.position[a])]
       IN [min |-> [a \in Axes |-> Min2(lo[a], hi[a])],
           max |-> [a \in Axes |-> Max2(lo[a], hi[a])]]

(* --------------------------- retrieval URLs ---------------------------- *)
\* Strings are sequences of characters.  A URL is a sequence of tokens whose
\* concatenation is the string: the literal pieces of the template are one
\* token each, every other token is one character or one %XX escape.
input == << "i", "n", "p", "u", "t" >>
output == << "o", "u", "t", "p", "u", "t" >>
temp == << "t", "e", "m", "p" >>

Filenames == { << "m", ".", "g", "l", "b" >>, << "a", " ", "b" >>, << "x", "&", "y" >> }
Subfolders == { << >>, << "3", "d" >>, << "a", "/", "b" >> }
Types == { << >>, input, output, temp }

\* the first element of message["3d"] / message.mesh: a field that is not
\* in `present` is undefined (and its value here is the empty string)
FileInfos ==
  { f \in [filename : Filenames, subfolder : Subfolders, type : Types,
            present : SUBSET {"subfolder", "type"}] :
      /\ ("subfolder" \notin f.present => f.subfolder = << >>)
      /\ ("type" \notin f.present => f.type = << >>) }

\* JavaScript truthiness of a string field: defined and not empty
Truthy(f, field) == field \in f.present /\ f[field] # << >>

\* characters encodeURIComponent escapes (all but A-Z a-z 0-9 - _ . ! ~ * ' ( ))
Escapes ==
  [c \in {" ", "&", "/", "=", "?", "%", "#"} |->
     CASE c = " " -> "%20" [] c = "&" -> "%26" [] c = "/" -> "%2F"
       [] c = "=" -> "%3D" [] c = "?" -> "%3F" [] c = "%" -> "%25"
       [] c = "#" -> "%23"]

encodeURIComponent(str) ==
  [i \in DOMAIN str |-> IF str[i] \in DOMAIN Escapes THEN Escapes[str[i]] ELSE str[i]]

\* onExecuted of bespokeai_3d_viewer.js: the URL handed to loadModel
viewerUrl(f) ==
  << "/view?filename=" >> \o encodeURIComponent(f.filename)
  \o ( IF Truthy(f, "subfolder")
         THEN << "&subfolder=" >> \o encodeURIComponent(f.subfolder) ELSE << >> )
  \o ( IF Truthy(f, "type")
         THEN << "&type=" >> \o encodeURIComponent(f.type) ELSE << >> )

\* onExecuted of bespokeai_3d_preview.js: api.apiURL(route) puts the API
\* base of the host in front of the route
previewUrl(f) ==
  LET subfolder == IF Truthy(f, "subfolder") THEN f.subfolder ELSE << >>
      type == IF Truthy(f, "type") THEN f.type ELSE input
  IN << "api.apiURL:" >> \o
     ( IF type = input
         THEN << "/view?filename=" >> \o encodeURIComponent(f.filename)
              \o << "&subfolder=" >> \o encodeURIComponent(subfolder)
              \o << "&type=" >> \o type
         ELSE << "/view?filename=" >> \o encodeURIComponent(f.filename)
              \o << "&type=" >> \o type )

(* ------------------------------- state --------------------------------- *)
VARIABLES
  THREE, GLTFLoader, OrbitControls,  \* module globals: TRUE when set
  threeLoaded, threeLoading,
  viewers,        \* keys of the viewers Map
  bespokeViewer,  \* node._bespokeViewer is set
  viewer,         \* fields of the BespokeAI3DViewerWidget
  engine,         \* what the 3D engine and the browser hold for the viewer
  procs,          \* asynchronous calls still running: preload, init, loadModel
  nextId,         \* the number the next call gets
  destroyed,      \* destroy() has been called
  lateCall,       \* loadModel got past its same-source check after destroy()
  last,           \* the last step: the operation and the outside calls it made
  request,        \* a file descriptor of a message and the URL composed from it
  fit,            \* a parsed model's bounding box and the transform loadModel gives it
  pv              \* the preview extension: its module globals, its node's viewer, its calls

vars == << THREE, GLTFLoader, OrbitControls, threeLoaded, threeLoading,
           viewers, bespokeViewer, viewer, engine, procs, nextId, destroyed, lateCall,
           last, request, fit, pv >>

globals == << THREE, GLTFLoader, OrbitControls, threeLoaded, threeLoading >>

(* ------------------------- viewer construction ------------------------- *)
\* the overlay element created by the constructor
InitialOverlay ==
  [display |-> "flex", textContent |-> "Initializing 3D Viewer...", color |-> "#0f0"]

\* BespokeAI3DViewerWidget.constructor: 0 stands for null.  An engine object
\* is named by its rank among the objects of its kind created for the viewer
\* (scene = 2 is the second Scene); animationId = 1 is the handle of the last
\* requestAnimationFrame call; a model is named by the call that loaded it
NewViewer ==
  [scene |-> 0, camera |-> 0, renderer |-> 0, controls |-> 0, model |-> 0,
   animationId |-> 0, isInitialized |-> FALSE, currentUrl |-> 0,
   loadingDiv |-> InitialOverlay]

\* nothing created in the engine yet
NewEngine ==
  [children |-> {},           \* loaded models that are children of viewer.scene
   frames |-> [current |-> FALSE,  \* the callback viewer.animationId names is pending
               stale |-> 0],       \* other pending requestAnimationFrame callbacks
   loaded |-> << >>,          \* parsed models not yet traversed by clearModel, with their URL
   retained |-> {},           \* resources allocated and not yet released by dispose()
   rendererDisposals |-> 0,   \* dispose() calls made on viewer.renderer
   cameraPose |-> "none"]     \* "default" after position.set(2, 1.5, 2); "moved" by the user

\* a handler's working state: the viewer, the engine, the outside calls made
\* so far, whether it threw, and the value init() returned
World(v, e) == [v |-> v, e |-> e, calls |-> {}, thrown |-> FALSE, ok |-> TRUE]

\* a function without one element of its domain
Without(f, x) == [y \in DOMAIN f \ {x} |-> f[y]]

(* ------------------------------ clearModel ----------------------------- *)
\* what the traverse callback of clearModel releases on one node
NodeDispose(m, n, node) ==
  ( IF node.geometry THEN {Res(m, n, "geometry", 0, "")} ELSE {} )
  \cup
  ( IF node.material = "none" THEN {}
    ELSE UNION { ( IF "map" \in node.mats[j].textures
                     THEN {Res(m, n, "texture", j, "map")} ELSE {} )
                 \cup {Res(m, n, "material", j, "")}
               : j \in DOMAIN node.mats } )

\* model.traverse(child => ...) over the whole subtree
TraverseDispose(m, url) ==
  LET doc == Content(url) IN
  UNION { NodeDispose(m, n, doc[n]) : n \in DOMAIN doc }

\* clearModel(): scene.remove, dispose the subtree, this.model = null
clearModel(w) ==
  IF w.v.model = 0 THEN w
  ELSE IF w.v.scene = 0 THEN [w EXCEPT !.thrown = TRUE]
  ELSE [w EXCEPT !.e.children = @ \ {w.v.model},
                 !.e.retained = @ \ TraverseDispose(w.v.model, w.e.loaded[w.v.model]),
                 !.e.loaded = Without(@, w.v.model),
                 !.v.model = 0]

(* ------------------------------- animate ------------------------------- *)
\* animate(): re-arms itself while initialized; the handle animationId held
\* before, if its callback is still pending, is no longer known to the viewer
animate(w) ==
  IF ~w.v.isInitialized THEN w
  ELSE [w EXCEPT !.v.animationId = 1,
                 !.e.frames = [current |-> TRUE,
                               stale |-> @.stale + IF @.current THEN 1 ELSE 0],
                 !.calls = @ \cup {"requestAnimationFrame", "render"}]

(* --------------------------------- init -------------------------------- *)
\* init() after loadThreeJS() returned `loaded`; glOk is whether
\* new THREE.WebGLRenderer gets a context (it throws otherwise)
init(w, loaded, glOk) ==
  IF ~loaded
    THEN [w EXCEPT !.v.loadingDiv.textContent = "Failed to load 3D engine",
                   !.v.loadingDiv.color = "#f00",
                   !.ok = FALSE]
    ELSE LET w1 == [w EXCEPT !.v.scene = @ + 1, !.v.camera = @ + 1,
                             !.e.children = {},
                             !.e.cameraPose = "default"]
         IN IF ~glOk
              THEN [w1 EXCEPT !.thrown = TRUE]
              ELSE animate([w1 EXCEPT !.v.renderer = @ + 1, !.v.controls = @ + 1,
                                      !.e.rendererDisposals = 0,
                                      !.v.isInitialized = TRUE,
                                      !.v.loadingDiv.display = "none"])

(* ------------------------------- loadModel ----------------------------- *)
\* the same-source check left out: every call reloads
AlreadyLoaded_Dropped(v, url) == FALSE

\* the same-source check at the top of loadModel
AlreadyLoaded(v, url) == v.currentUrl = url

\* loadModel from line 209 to the await of the fetch
loadStart(w) ==
  LET w1 == clearModel([w EXCEPT !.v.loadingDiv =
                          [display |-> "flex", textContent |-> "Loading 3D model...",
                           color |-> "#0f0"]])
  IN IF w1.thrown THEN w1 ELSE [w1 EXCEPT !.calls = @ \cup {"fetch"}]

\* loadModel after the fetch of url resolved with a new model p
loadSuccess(w, p, url) ==
  [w EXCEPT !.v.model = p,
            !.e.loaded = @ @@ (p :> url),
            !.e.retained = @ \cup Resources(p, url),
            !.e.children = @ \cup {p},
            !.e.cameraPose = "default",
            !.v.loadingDiv.display = "none"]

\* a catch block that leaves the overlay as it is
loadFailure_NoMessage(w) == w

\* the catch block of loadModel
loadFailure(w) ==
  [w EXCEPT !.v.loadingDiv.textContent = "Error loading model",
            !.v.loadingDiv.color = "#f00"]

(* -------------------------------- destroy ------------------------------ *)
\* a destroy() that tears nothing down
destroy_Skipped(w) == w

destroy(w) ==
  LET w1 == IF w.v.animationId # 0
              THEN [w EXCEPT !.e.frames.current = FALSE,
                             !.calls = @ \cup {"cancelAnimationFrame"}]
              ELSE w
      w2 == clearModel(w1)
      w3 == IF w2.v.renderer # 0
              THEN [w2 EXCEPT !.e.rendererDisposals = @ + 1,
                              !.calls = @ \cup {"renderer.dispose"}]
              ELSE w2
  IN IF w2.thrown THEN w2 ELSE [w3 EXCEPT !.v.isInitialized = FALSE]


(* ------------------------------ loadThreeJS ---------------------------- *)
\* a loadThreeJS that does not look at threeLoading
loadThreeJSEntry_NoWait ==
  IF threeLoaded THEN "loaded" ELSE "import1"

\* where a call of loadThreeJS stands after its synchronous part:
\* "loaded" (returns true at once), "poll" (waits for the load in progress),
\* "import1" (set threeLoading and started the imports itself)
loadThreeJSEntry ==
  IF threeLoaded THEN "loaded"
  ELSE IF threeLoading THEN "poll"
  ELSE "import1"

(* --------------------------- asynchronous calls ------------------------ *)
\* calls are numbered in the order they are made: the module preload, the
\* init() of onNodeCreated, then the loadModel calls
PreloadId == 1
FirstLoadId == 3

\* prev: the model that was rendered when the loadModel call was made
Proc(kind, pc, url) ==
  [kind |-> kind, pc |-> pc, url |-> url,
   prev |-> IF kind = "load" THEN viewer.model ELSE 0]

\* a new call p stands at pc; a call that is done is forgotten
Started(p, kind, pc, url) ==
  IF pc = "done" THEN procs ELSE procs @@ (p :> Proc(kind, pc, url))

\* a running call p moves to pc
Settled(p, pc) ==
  IF pc = "done" THEN Without(procs, p) ELSE [procs EXCEPT ![p].pc = pc]

InFlight == { p \in DOMAIN procs : procs[p].pc = "fetch" }
LoadCalls == IF nextId > FirstLoadId THEN nextId - FirstLoadId ELSE 0
\* the last loadModel call that got past the same-source check
LastLoad == IF nextId > FirstLoadId THEN nextId - 1 ELSE 0

\* what the caller of loadThreeJS does once it returned `loaded`:
\* the module preload does nothing, init() runs its body, loadModel runs
\* init()'s body and then goes on to the fetch
Resume(kind, loaded, glOk, w) ==
  IF kind = "preload" THEN [w |-> w, pc |-> "done"]
  ELSE LET w1 == init(w, loaded, glOk) IN
       IF w1.thrown \/ kind = "init" \/ ~w1.ok THEN [w |-> w1, pc |-> "done"]
       ELSE LET w2 == loadStart(w1) IN
            [w |-> w2, pc |-> IF w2.thrown THEN "done" ELSE "fetch"]

\* commit a handler's working state
Commit(op, w) ==
  /\ viewer' = w.v
  /\ engine' = w.e
  /\ last' = [op |-> op, calls |-> w.calls, thrown |-> w.thrown]
  /\ UNCHANGED << request, fit, pv >>

\* a new call (init or loadModel) reaches loadThreeJS from working state w
Call(op, kind, url, w) ==
  LET p == nextId
      at == loadThreeJSEntry
  IN IF at = "loaded"
       THEN \E glOk \in BOOLEAN :
              LET r == Resume(kind, TRUE, glOk, w) IN
              /\ procs' = Started(p, kind, r.pc, url)
              /\ Commit(op, r.w)
              /\ UNCHANGED globals
       ELSE /\ procs' = Started(p, kind, at, url)
            /\ Commit(op, w)
            /\ threeLoading' = TRUE
            /\ UNCHANGED << THREE, GLTFLoader, OrbitControls, threeLoaded >>

(* ------------------------------ host callbacks ------------------------- *)
\* the "3d" list of an execution-complete message: empty, or one file whose
\* retrieval URL is u
Messages == {<<>>} \cup { <<u>> : u \in Urls }

\* onNodeCreated: getOrCreateViewer(this), viewer.init() in the background
OnNodeCreated ==
  /\ ~bespokeViewer
  /\ viewers' = viewers \cup {NodeId}
  /\ bespokeViewer' = TRUE
  /\ Call("onNodeCreated", "init", 0,
          World(IF NodeId \in viewers THEN viewer ELSE NewViewer, engine))
  /\ nextId' = nextId + 1
  /\ UNCHANGED << destroyed, lateCall >>

\* an onExecuted that starts a load without looking for a descriptor
OnExecuted_Unfiltered(msg) ==
  /\ bespokeViewer
  /\ Commit("onExecuted", loadStart(World(viewer, engine)))
  /\ UNCHANGED << globals, viewers, bespokeViewer, destroyed, procs, nextId, lateCall >>

\* onExecuted -> loadModel(url) up to its first real suspension
OnExecuted(msg) ==
  /\ bespokeViewer
  /\ UNCHANGED << viewers, bespokeViewer, destroyed >>
  /\ IF msg = <<>> \/ AlreadyLoaded(viewer, msg[1])
       THEN /\ Commit(IF msg = <<>> THEN "onExecuted" ELSE "loadModel",
                      World(viewer, engine))
            /\ UNCHANGED << globals, procs, nextId, lateCall >>
       ELSE /\ LoadCalls < MaxLoads
            /\ nextId' = nextId + 1
            /\ lateCall' = destroyed
            /\ LET w == World([viewer EXCEPT !.currentUrl = msg[1]], engine) IN
               IF viewer.isInitialized
                 THEN LET w1 == loadStart(w) IN
                      /\ procs' = Started(nextId, "load",
                                          IF w1.thrown THEN "done" ELSE "fetch", msg[1])
                      /\ Commit("loadModel", w1)
                      /\ UNCHANGED globals
                 ELSE Call("loadModel", "load", msg[1], w)

\* onRemoved: viewer.destroy(), viewers.delete(this.id)
OnRemoved ==
  /\ bespokeViewer
  /\ engine.rendererDisposals < MaxDisposals
  /\ destroyed' = TRUE
  /\ UNCHANGED lateCall
  /\ Commit("onRemoved", destroy(World(viewer, engine)))
  /\ viewers' = viewers \ {NodeId}
  /\ UNCHANGED << globals, bespokeViewer, procs, nextId >>

(* ---------------------------- continuations ---------------------------- *)
\* a waiting call that returns false whatever the load gave
PollWake_ReturnsFalse(p) ==
  /\ procs[p].pc = "poll"
  /\ ~threeLoading
  /\ \E glOk \in BOOLEAN :
       LET r == Resume(procs[p].kind, FALSE, glOk, World(viewer, engine)) IN
       /\ procs' = Settled(p, r.pc)
       /\ Commit("timer", r.w)
  /\ UNCHANGED << globals, viewers, bespokeViewer, nextId, destroyed, lateCall >>

\* the 100 ms timer of a waiting loadThreeJS call fires and finds
\* threeLoading false: the call returns threeLoaded
PollWake(p) ==
  /\ procs[p].pc = "poll"
  /\ ~threeLoading
  /\ \E glOk \in BOOLEAN :
       LET r == Resume(procs[p].kind, threeLoaded, glOk, World(viewer, engine)) IN
       /\ procs' = Settled(p, r.pc)
       /\ Commit("timer", r.w)
  /\ UNCHANGED << globals, viewers, bespokeViewer, nextId, destroyed, lateCall >>

\* a loadThreeJS that sets threeLoaded as soon as an import succeeded
ImportNext_LoadedEarly(p) ==
  /\ procs[p].pc \in {"import1", "import2"}
  /\ IF procs[p].pc = "import1"
       THEN /\ THREE' = TRUE
            /\ UNCHANGED GLTFLoader
       ELSE /\ GLTFLoader' = TRUE
            /\ UNCHANGED THREE
  /\ threeLoaded' = TRUE
  /\ procs' = Settled(p, IF procs[p].pc = "import1" THEN "import2" ELSE "import3")
  /\ Commit("import", World(viewer, engine))
  /\ UNCHANGED << OrbitControls, threeLoading, viewers, bespokeViewer,
                  nextId, destroyed, lateCall >>

\* an import of loadThreeJS succeeds and is not the last one
ImportNext(p) ==
  /\ procs[p].pc \in {"import1", "import2"}
  /\ IF procs[p].pc = "import1"
       THEN /\ THREE' = TRUE
            /\ UNCHANGED GLTFLoader
       ELSE /\ GLTFLoader' = TRUE
            /\ UNCHANGED THREE
  /\ procs' = Settled(p, IF procs[p].pc = "import1" THEN "import2" ELSE "import3")
  /\ Commit("import", World(viewer, engine))
  /\ UNCHANGED << OrbitControls, threeLoaded, threeLoading, viewers, bespokeViewer,
                  nextId, destroyed, lateCall >>

\* the last import succeeds: threeLoaded = true, loadThreeJS returns true
ImportLast(p) ==
  /\ procs[p].pc = "import3"
  /\ OrbitControls' = TRUE
  /\ threeLoaded' = TRUE
  /\ threeLoading' = FALSE
  /\ \E glOk \in BOOLEAN :
       LET r == Resume(procs[p].kind, TRUE, glOk, World(viewer, engine)) IN
       /\ procs' = Settled(p, r.pc)
       /\ Commit("import", r.w)
  /\ UNCHANGED << THREE, GLTFLoader, viewers, bespokeViewer, nextId, destroyed, lateCall >>

\* an import rejects: the catch block, loadThreeJS returns false
ImportFail(p) ==
  /\ procs[p].pc \in {"import1", "import2", "import3"}
  /\ threeLoaded' = FALSE
  /\ threeLoading' = FALSE
  /\ \E glOk \in BOOLEAN :
       LET r == Resume(procs[p].kind, FALSE, glOk, World(viewer, engine)) IN
       /\ procs' = Settled(p, r.pc)
       /\ Commit("import", r.w)
  /\ UNCHANGED << THREE, GLTFLoader, OrbitControls, viewers, bespokeViewer, nextId, destroyed, lateCall >>

\* the progress callback of a fetch in flight (progress.total > 0)
FetchProgress(p) ==
  /\ procs[p].pc = "fetch"
  /\ Commit("progress",
            World([viewer EXCEPT !.loadingDiv.textContent = "Loading: n%"], engine))
  /\ UNCHANGED << globals, viewers, bespokeViewer, procs, nextId, destroyed, lateCall >>

\* loader.load resolves the promise with the parsed document
FetchResolve(p) ==
  /\ procs[p].pc = "fetch"
  /\ procs' = Settled(p, "done")
  /\ Commit("resolve", loadSuccess(World(viewer, engine), p, procs[p].url))
  /\ UNCHANGED << globals, viewers, bespokeViewer, nextId, destroyed, lateCall >>

\* loader.load rejects the promise (network or parse failure)
FetchReject(p) ==
  /\ procs[p].pc = "fetch"
  /\ procs' = Settled(p, "done")
  /\ Commit("reject", loadFailure(World(viewer, engine)))
  /\ UNCHANGED << globals, viewers, bespokeViewer, nextId, destroyed, lateCall >>

\* the browser runs the pending requestAnimationFrame callback that
\* animationId names: animate()
Frame ==
  /\ engine.frames.current
  /\ Commit("frame", animate(World(viewer, [engine EXCEPT !.frames.current = FALSE])))
  /\ UNCHANGED << globals, viewers, bespokeViewer, procs, nextId, destroyed, lateCall >>

\* the browser runs a pending callback of a frame loop whose handle the
\* viewer no longer holds (animationId was overwritten by another loop)
StaleFrame ==
  /\ engine.frames.stale > 0
  /\ Commit("frame", animate(World(viewer, [engine EXCEPT !.frames.stale = @ - 1])))
  /\ UNCHANGED << globals, viewers, bespokeViewer, procs, nextId, destroyed, lateCall >>

\* the user drags on the canvas: OrbitControls moves the camera.  The
\* overlay covers the canvas and takes the pointer events while displayed
UserOrbit ==
  /\ viewer.controls # 0
  /\ viewer.loadingDiv.display = "none"
  /\ engine.cameraPose # "moved"
  /\ Commit("orbit", World(viewer, [engine EXCEPT !.cameraPose = "moved"]))
  /\ UNCHANGED << globals, viewers, bespokeViewer, procs, nextId, destroyed, lateCall >>

(* --------------------------- URL composition --------------------------- *)
\* no message with a file descriptor is being looked at
NoRequest == [fileInfo |-> << >>, by |-> "none", url |-> << >>]

\* the 3D viewer extension composes the URL of request.fileInfo
ComposeViewerUrl ==
  /\ request.by = "pending"
  /\ request' = [request EXCEPT !.by = "viewer", !.url = viewerUrl(request.fileInfo)]
  /\ UNCHANGED << globals, viewers, bespokeViewer, viewer, engine, procs, nextId,
                  destroyed, lateCall, last, fit, pv >>

\* the 3D preview extension composes the URL of request.fileInfo
ComposePreviewUrl ==
  /\ request.by = "pending"
  /\ request' = [request EXCEPT !.by = "preview", !.url = previewUrl(request.fileInfo)]
  /\ UNCHANGED << globals, viewers, bespokeViewer, viewer, engine, procs, nextId,
                  destroyed, lateCall, last, fit, pv >>

(* --------------------------- model placement --------------------------- *)
\* no parsed model is being placed
NoFit == [box |-> EmptyBox, placed |-> FALSE, transform |-> << >>]

\* loadModel lines 233-243 on a parsed model whose bounding box is fit.box
PlaceModel ==
  /\ ~fit.placed
  /\ fit' = [fit EXCEPT !.placed = TRUE, !.transform = CenterAndScale(fit.box)]
  /\ UNCHANGED << globals, viewers, bespokeViewer, viewer, engine, procs, nextId,
                  destroyed, lateCall, last, request, pv >>

(* --------------------------- preview extension ------------------------- *)
\* bespokeai_3d_preview.js.  All of its state is the record pv: the module
\* globals THREE, OrbitControls, GLTFLoader; the node (hasViewer: this.viewer
\* is set, removed: onRemoved has cleaned the viewer up); the viewer object
\* handed to loadModel; what the engine and the browser hold for it; the
\* onExecuted calls still running; the last step.  The graphics context is
\* taken to be available and the text of the loading overlay is not tracked.

\* create3DViewer: the object it returns, with the display of its two
\* overlay elements (0 stands for null, objects are named by creation rank)
create3DViewer ==
  [scene |-> 0, camera |-> 0, renderer |-> 0, controls |-> 0, model |-> 0,
   animationId |-> 0, loadingDiv |-> "block", errorDiv |-> "none"]

\* container sizes a ResizeObserver callback may find, per dimension
Dims == {0, 1}

NewPreview ==
  [THREE |-> FALSE, OrbitControls |-> FALSE, GLTFLoader |-> FALSE,
   hasViewer |-> FALSE, removed |-> FALSE,
   viewer |-> create3DViewer,
   children |-> {},          \* loaded models that are children of viewer.scene
   disposed |-> {},          \* loaded models whose geometries and materials were disposed
   frames |-> [current |-> FALSE, stale |-> 0],
   observers |-> 0,          \* ResizeObservers observing the container
   rendererDisposals |-> 0,
   size |-> << 0, 0 >>,      \* width and height last given to camera.aspect and renderer.setSize
   procs |-> << >>,          \* running onExecuted calls: where they await
   nextId |-> 1,
   last |-> [op |-> "module", calls |-> {}, thrown |-> FALSE, returned |-> FALSE]]

\* a step of the preview extension starts: nothing called or thrown yet
Step(s, op) ==
  [s EXCEPT !.last = [op |-> op, calls |-> {}, thrown |-> FALSE, returned |-> FALSE]]

\* the closure animate() of initScene: no test of any flag
previewAnimate(s) ==
  [s EXCEPT !.viewer.animationId = 1,
            !.frames = [current |-> TRUE,
                        stale |-> @.stale + IF @.current THEN 1 ELSE 0],
            !.last.calls = @ \cup {"requestAnimationFrame", "render"}]

\* initScene after loadThreeJS() returned normally
initScene(s) ==
  LET s1 == [s EXCEPT !.last.returned = TRUE,
                      !.viewer.scene = @ + 1, !.viewer.camera = @ + 1,
                      !.viewer.renderer = @ + 1,
                      !.rendererDisposals = 0,
                      !.children = {},
                      !.size = << 1, 1 >>]
  IN IF ~s.OrbitControls
       THEN [s1 EXCEPT !.last.thrown = TRUE]
       ELSE [previewAnimate([s1 EXCEPT !.viewer.controls = @ + 1])
               EXCEPT !.observers = @ + 1]

\* the traversal that disposes geometries and materials of viewer.model
disposeModel(s) ==
  IF s.viewer.model = 0 THEN s ELSE [s EXCEPT !.disposed = @ \cup {s.viewer.model}]

\* the catch block of the preview's loadModel
previewLoadFailure(s) ==
  [s EXCEPT !.viewer.loadingDiv = "none", !.viewer.errorDiv = "block"]

\* the preview's loadModel from line 188 to the await of the fetch; the
\* result says where call p stands afterwards
previewLoadStart(s) ==
  LET s1 == [s EXCEPT !.viewer.loadingDiv = "block", !.viewer.errorDiv = "none"]
      s2 == IF s1.viewer.model = 0 THEN s1
            ELSE [disposeModel(s1) EXCEPT !.children = @ \ {s1.viewer.model},
                                          !.viewer.model = 0]
  IN IF ~s.GLTFLoader
       THEN [s |-> previewLoadFailure(s2), pc |-> "done"]
       ELSE [s |-> [s2 EXCEPT !.last.calls = @ \cup {"fetch"}], pc |-> "fetch"]

\* loadModel once initScene is over (or was not needed)
previewAfterInit(s) ==
  IF s.last.thrown THEN [s |-> s, pc |-> "done"] ELSE previewLoadStart(s)

\* the preview's loadModel after the fetch resolved with model p
previewLoadSuccess(s, p) ==
  LET s1 == [s EXCEPT !.viewer.model = p, !.children = @ \cup {p}]
  IN IF s.viewer.controls = 0
       THEN previewLoadFailure(s1)
       ELSE [s1 EXCEPT !.viewer.loadingDiv = "none"]

cleanupViewer(s) ==
  LET s1 == IF s.viewer.animationId # 0
              THEN [s EXCEPT !.frames.current = FALSE,
                             !.last.calls = @ \cup {"cancelAnimationFrame"}]
              ELSE s
      s2 == IF s1.viewer.renderer # 0
              THEN [s1 EXCEPT !.rendererDisposals = @ + 1,
                              !.last.calls = @ \cup {"renderer.dispose"}]
              ELSE s1
  IN disposeModel(s2)

\* call p moves to pc; a call that is over is forgotten
previewSettled(s, p, pc) ==
  IF pc = "done"
    THEN [s EXCEPT !.procs = [q \in DOMAIN s.procs \ {p} |-> s.procs[q]]]
    ELSE [s EXCEPT !.procs = [q \in DOMAIN s.procs \cup {p} |-> IF q = p THEN pc ELSE s.procs[q]]]

\* everything but pv
lifecycle == << THREE, GLTFLoader, OrbitControls, threeLoaded, threeLoading,
               viewers, bespokeViewer, viewer, engine, procs, nextId, destroyed,
               lateCall, last, request, fit >>

\* onExecuted of the preview node: hasMesh is whether message.mesh holds a
\* descriptor with a filename
PreviewOnExecuted(hasMesh) ==
  /\ ~pv.removed
  /\ IF ~hasMesh
       THEN pv' = Step(pv, "onExecuted")
       ELSE /\ pv.nextId <= MaxMessages
            /\ LET p == pv.nextId
                   s0 == [Step(pv, "loadModel") EXCEPT !.hasViewer = TRUE, !.nextId = @ + 1]
               IN IF s0.viewer.scene # 0
                    THEN LET r == previewLoadStart(s0) IN pv' = previewSettled(r.s, p, r.pc)
                    ELSE IF s0.THREE
                      THEN LET r == previewAfterInit(initScene(s0)) IN
                           pv' = previewSettled(r.s, p, r.pc)
                      ELSE pv' = previewSettled(s0, p, "import1")
  /\ UNCHANGED lifecycle

\* onRemoved of the preview node
PreviewOnRemoved ==
  /\ pv.hasViewer
  /\ pv' = [cleanupViewer(Step(pv, "onRemoved")) EXCEPT !.hasViewer = FALSE, !.removed = TRUE]
  /\ UNCHANGED lifecycle

\* an import of the preview's loadThreeJS succeeds
PreviewImport(p) ==
  /\ p \in DOMAIN pv.procs
  /\ pv.procs[p] \in {"import1", "import2", "import3"}
  /\ LET s0 == Step(pv, "import") IN
     CASE pv.procs[p] = "import1" -> pv' = previewSettled([s0 EXCEPT !.THREE = TRUE], p, "import2")
       [] pv.procs[p] = "import2" -> pv' = previewSettled(s0, p, "import3")
       [] pv.procs[p] = "import3" ->
            LET r == previewAfterInit(initScene([s0 EXCEPT !.OrbitControls = TRUE,
                                                           !.GLTFLoader = TRUE]))
            IN pv' = previewSettled(r.s, p, r.pc)
  /\ UNCHANGED lifecycle

\* an import rejects: loadThreeJS rethrows, initScene, loadModel and
\* onExecuted reject
PreviewImportFail(p) ==
  /\ p \in DOMAIN pv.procs
  /\ pv.procs[p] \in {"import1", "import2", "import3"}
  /\ pv' = previewSettled([Step(pv, "import") EXCEPT !.last.thrown = TRUE], p, "done")
  /\ UNCHANGED lifecycle

PreviewFetchResolve(p) ==
  /\ p \in DOMAIN pv.procs
  /\ pv.procs[p] = "fetch"
  /\ pv' = previewSettled(previewLoadSuccess(Step(pv, "resolve"), p), p, "done")
  /\ UNCHANGED lifecycle

PreviewFetchReject(p) ==
  /\ p \in DOMAIN pv.procs
  /\ pv.procs[p] = "fetch"
  /\ pv' = previewSettled(previewLoadFailure(Step(pv, "reject")), p, "done")
  /\ UNCHANGED lifecycle

\* the browser runs the pending frame callback viewer.animationId names
PreviewFrame ==
  /\ pv.frames.current
  /\ pv' = previewAnimate([Step(pv, "frame") EXCEPT !.frames.current = FALSE])
  /\ UNCHANGED lifecycle

\* the browser runs the pending frame callback of another loop
PreviewStaleFrame ==
  /\ pv.frames.stale > 0
  /\ pv' = previewAnimate([Step(pv, "frame") EXCEPT !.frames.stale = @ - 1])
  /\ UNCHANGED lifecycle

\* a ResizeObserver created by initScene reports the container at w x h
PreviewResize(w, h) ==
  /\ pv.observers > 0
  /\ pv' = [Step(pv, "resize") EXCEPT !.size = << w, h >>,
                                      !.last.calls = {"camera.updateProjectionMatrix",
                                                      "renderer.setSize"}]
  /\ UNCHANGED lifecycle

(* ---------------------------- specification ---------------------------- *)
\* the module has been evaluated: the preload call of loadThreeJS (line 360)
\* has set threeLoading and awaits its first import; no node exists yet
Init ==
  /\ THREE = FALSE /\ GLTFLoader = FALSE /\ OrbitControls = FALSE
  /\ threeLoaded = FALSE
  /\ threeLoading = TRUE
  /\ viewers = {}
  /\ bespokeViewer = FALSE
  /\ viewer = NewViewer
  /\ engine = NewEngine
  /\ procs = (PreloadId :> [kind |-> "preload", pc |-> "import1", url |-> 0, prev |-> 0])
  /\ nextId = PreloadId + 1
  /\ destroyed = FALSE
  /\ lateCall = FALSE
  /\ last = [op |-> "module", calls |-> {}, thrown |-> FALSE]
  /\ request = NoRequest
  /\ fit = NoFit
  /\ pv = NewPreview

Next ==
  \/ OnNodeCreated
  \/ \E msg \in Messages : OnExecuted(msg)
  \/ OnRemoved
  \/ \E p \in DOMAIN procs : PollWake(p)
  \/ \E p \in DOMAIN procs : ImportNext(p)
  \/ \E p \in DOMAIN procs : ImportLast(p)
  \/ \E p \in DOMAIN procs : ImportFail(p)
  \/ \E p \in DOMAIN procs : FetchProgress(p)
  \/ \E p \in DOMAIN procs : FetchResolve(p)
  \/ \E p \in DOMAIN procs : FetchReject(p)
  \/ Frame
  \/ StaleFrame
  \/ UserOrbit

Spec == Init /\ [][Next]_vars

\* every call that can enter loadThreeJS: the preload, init(), the loads
CallIds == 1..(FirstLoadId + MaxLoads - 1)

\* the browser at work: a dynamic import that was started settles, and the
\* 100 ms timer of a waiting call fires
FairSpec ==
  /\ Spec
  /\ \A p \in CallIds :
       /\ WF_vars(p \in DOMAIN procs /\ PollWake(p))
       /\ WF_vars(p \in DOMAIN procs /\ (ImportNext(p) \/ ImportLast(p) \/ ImportFail(p)))

\* the URL composition alone, over every file descriptor of FileInfos
InitUrl ==
  /\ THREE = FALSE /\ GLTFLoader = FALSE /\ OrbitControls = FALSE
  /\ threeLoaded = FALSE
  /\ threeLoading = TRUE
  /\ viewers = {}
  /\ bespokeViewer = FALSE
  /\ viewer = NewViewer
  /\ engine = NewEngine
  /\ procs = (PreloadId :> [kind |-> "preload", pc |-> "import1", url |-> 0, prev |-> 0])
  /\ nextId = PreloadId + 1
  /\ destroyed = FALSE
  /\ lateCall = FALSE
  /\ last = [op |-> "module", calls |-> {}, thrown |-> FALSE]
  /\ request \in [fileInfo : FileInfos, by : {"pending"}, url : {<< >>}]
  /\ fit = NoFit
  /\ pv = NewPreview

NextUrl ==
  \/ ComposeViewerUrl
  \/ ComposePreviewUrl

SpecUrl == InitUrl /\ [][NextUrl]_vars

\* the centering and scaling alone, over every box of Boxes
InitFit ==
  /\ THREE = TRUE /\ GLTFLoader = TRUE /\ OrbitControls = TRUE
  /\ threeLoaded = TRUE
  /\ threeLoading = FALSE
  /\ viewers = {}
  /\ bespokeViewer = FALSE
  /\ viewer = NewViewer
  /\ engine = NewEngine
  /\ procs = << >>
  /\ nextId = PreloadId + 1
  /\ destroyed = FALSE
  /\ lateCall = FALSE
  /\ last = [op |-> "module", calls |-> {}, thrown |-> FALSE]
  /\ request = NoRequest
  /\ fit \in [box : Boxes, placed : {FALSE}, transform : {<< >>}]
  /\ pv = NewPreview

NextFit == PlaceModel

SpecFit == InitFit /\ [][NextFit]_vars

\* the preview extension alone
InitPreview ==
  /\ THREE = FALSE /\ GLTFLoader = FALSE /\ OrbitControls = FALSE
  /\ threeLoaded = FALSE
  /\ threeLoading = TRUE
  /\ viewers = {}
  /\ bespokeViewer = FALSE
  /\ viewer = NewViewer
  /\ engine = NewEngine
  /\ procs = (PreloadId :> [kind |-> "preload", pc |-> "import1", url |-> 0, prev |-> 0])
  /\ nextId = PreloadId + 1
  /\ destroyed = FALSE
  /\ lateCall = FALSE
  /\ last = [op |-> "module", calls |-> {}, thrown |-> FALSE]
  /\ request = NoRequest
  /\ fit = NoFit
  /\ pv = NewPreview

PreviewCalls == 1..MaxMessages

NextPreview ==
  \/ \E hasMesh \in BOOLEAN : PreviewOnExecuted(hasMesh)
  \/ PreviewOnRemoved
  \/ \E p \in PreviewCalls : PreviewImport(p)
  \/ \E p \in PreviewCalls : PreviewImportFail(p)
  \/ \E p \in PreviewCalls : PreviewFetchResolve(p)
  \/ \E p \in PreviewCalls : PreviewFetchReject(p)
  \/ PreviewFrame
  \/ PreviewStaleFrame
  \/ \E w \in Dims, h \in Dims : PreviewResize(w, h)

SpecPreview == InitPreview /\ [][NextPreview]_vars

TypeOK ==
  /\ threeLoaded \in BOOLEAN /\ threeLoading \in BOOLEAN
  /\ viewers \subseteq {NodeId}
  /\ destroyed \in BOOLEAN
  /\ lateCall \in BOOLEAN /\ (lateCall => destroyed)
  /\ engine.rendererDisposals \in 0..MaxDisposals
  /\ LoadCalls <= MaxLoads
  /\ DOMAIN procs \subseteq 1..(nextId - 1)

(* ------------------------------ observations --------------------------- *)
OverlayHidden(v) == v.loadingDiv.display = "none"

\* the overlay shows the message of loadModel's catch block
OverlayError(v) ==
  /\ v.loadingDiv.display = "flex"
  /\ v.loadingDiv.textContent = "Error loading model"
  /\ v.loadingDiv.color = "#f00"

\* the overlay shows the loading indicator
OverlayLoading(v) ==
  /\ v.loadingDiv.display = "flex"
  /\ v.loadingDiv.textContent \in {"Loading 3D model...", "Loading: n%"}

\* a loaded model is attached and shown
Rendered == viewer.model # 0 /\ viewer.model \in engine.children /\ OverlayHidden(viewer)

\* the fetch of call p settles (resolves or rejects) in this step
Settles(p) == p \in InFlight /\ p \notin DOMAIN procs'

\* the attached model and the overlay are what they were
SameRender ==
  /\ viewer'.model = viewer.model
  /\ engine'.children = engine.children
  /\ viewer'.loadingDiv = viewer.loadingDiv

(* ------------------------------- claims -------------------------------- *)

\* C1: the outcome of a superseded loadModel call (one issued before the
\* last-issued call) never changes the attached model or the overlay state,
\* whatever the order in which the fetches complete.
C1_SupersededOutcomeDiscarded ==
  [][\A p \in InFlight : (Settles(p) /\ p # LastLoad) => SameRender]_vars

\* C2: at most one loaded model is attached to the scene, and every model
\* that was parsed and assigned and is not the viewer's current model has
\* been disposed.
C2_OneModelNoLeak ==
  /\ Cardinality(engine.children) <= 1
  /\ DOMAIN engine.loaded \subseteq {viewer.model}

\* C3: while the instance is alive its engine context is created at most
\* once: init() never completes a second renderer and controls (objects are
\* named by their rank of creation).
C3_EngineCreatedOnce ==
  ~destroyed => (viewer.renderer <= 1 /\ viewer.controls <= 1)

\* C4: after destroy(), the completion of a load that was in flight when
\* destroy() ran attaches no model and changes no overlay state.
C4_CompletionAfterDestroyDiscarded ==
  [][(destroyed /\ ~lateCall) => \A p \in InFlight : Settles(p) => SameRender]_vars

\* C5: when a load made on a viewer that had a model rendered fails, the
\* overlay shows the error and that model is still the viewer's model,
\* attached to the scene and undisposed.
C5_FailureKeepsPreviousModel ==
  [][\A p \in InFlight :
       (Settles(p) /\ last'.op = "reject" /\ procs[p].prev # 0)
         => /\ OverlayError(viewer')
            /\ viewer'.model = procs[p].prev
            /\ procs[p].prev \in engine'.children
            /\ procs[p].prev \in DOMAIN engine'.loaded]_vars

\* C6: once destroy() has run, no step issues a render call or re-arms the
\* frame loop, whatever init() or load was pending when destroy() ran.
C6_NoFrameAfterDestroy ==
  [][(destroyed /\ ~lateCall')
       => last'.calls \cap {"render", "requestAnimationFrame"} = {}]_vars

\* C7: every geometry, material and texture of a disposed model has been
\* released: nothing of a model clearModel has traversed stays retained.
C7_DisposalComplete ==
  \A r \in engine.retained : r.model \in DOMAIN engine.loaded

\* C8: loadModel called again with the source of the previous call while the
\* viewer is Rendered issues no fetch and leaves the viewer, the engine
\* (attached model, camera) and the overlay unchanged.
C8_SameSourceNoOp ==
  [][(last'.op = "loadModel" /\ viewer'.currentUrl = viewer.currentUrl /\ Rendered)
       => /\ "fetch" \notin last'.calls
          /\ UNCHANGED << viewer, engine, procs, nextId >>]_vars

\* C8 witness: a same-source loadModel call has just returned on a viewer
\* that shows the model of that source
C8_Witness ==
  /\ last.op = "loadModel" /\ last.calls = {} /\ ~last.thrown
  /\ viewer.isInitialized /\ Rendered
  /\ engine.loaded[viewer.model] = viewer.currentUrl
  /\ InFlight = {}

\* C9: a loadModel call made in the Error state left by a failed load
\* always starts a fetch and shows the loading indicator, whatever source
\* it names.
C9_ErrorLoadRestarts ==
  [][(last'.op = "loadModel" /\ OverlayError(viewer) /\ InFlight = {})
       => ("fetch" \in last'.calls /\ OverlayLoading(viewer'))]_vars

\* C10: destroy() raises nothing, and a destroy() made on a viewer that an
\* earlier destroy() left torn down changes no state of the viewer or the
\* engine and releases the renderer no second time.
C10_DestroyIdempotent ==
  [][last'.op = "onRemoved"
       => /\ ~last'.thrown
          /\ (destroyed /\ ~viewer.isInitialized)
               => /\ viewer' = viewer
                  /\ engine' = engine
                  /\ engine'.rendererDisposals <= 1]_vars

Tokens(url) == { url[i] : i \in DOMAIN url }

\* seq occurs in url right after the token lit
Follows(url, lit, seq) ==
  \E i \in DOMAIN url :
    /\ url[i] = lit
    /\ i + Len(seq) <= Len(url)
    /\ \A k \in DOMAIN seq : url[i + k] = seq[k]

\* the storage class of a descriptor: "input" when absent or empty
StorageClass(f) == IF Truthy(f, "type") THEN f.type ELSE input

\* C12: a composed URL holds the encoded identifier, holds the storage
\* class ("input" when the descriptor has none), and holds the namespace
\* parameter only if the storage class is "input".
C12_UrlComposition ==
  request.by \in {"viewer", "preview"}
    => /\ Follows(request.url, "/view?filename=", encodeURIComponent(request.fileInfo.filename))
       /\ Follows(request.url, "&type=", StorageClass(request.fileInfo))
       /\ ("&subfolder=" \in Tokens(request.url)
             => StorageClass(request.fileInfo) = input)

\* C13: no step of a host callback or of a promise it started ends in an
\* exception that leaves the viewer (a throw out of the callback or an
\* unhandled rejection of init() / loadModel()).
C13_FailuresAbsorbed == ~last.thrown

\* C14: a loadModel call made after destroy() is not accepted: it makes no
\* outside call (no fetch, no frame request, no render), creates no engine
\* object, leaves the viewer uninitialized and starts no asynchronous work.
C14_DestroyedIsTerminal ==
  [][(destroyed /\ last'.op = "loadModel")
       => /\ last'.calls = {}
          /\ engine' = engine
          /\ viewer'.scene = viewer.scene /\ viewer'.renderer = viewer.renderer
          /\ viewer'.controls = viewer.controls /\ viewer'.model = viewer.model
          /\ ~viewer'.isInitialized
          /\ procs' = procs]_vars

\* C15: an init() that runs on a viewer whose initialization has completed
\* leaves scene, camera, renderer and controls as they were and starts no
\* further frame loop.
C15_InitIdempotent ==
  [][viewer.isInitialized
       => /\ viewer'.scene = viewer.scene /\ viewer'.camera = viewer.camera
          /\ viewer'.renderer = viewer.renderer /\ viewer'.controls = viewer.controls
          /\ engine'.frames.stale <= engine.frames.stale]_vars

\* the largest dimension of a box
MaxDim(box) ==
  LET size == getSize(box) IN Max2(Max2(size["x"], size["y"]), size["z"])

C17_KeepsRenderingDuringLoad ==
  [][(Rendered /\ viewer.isInitialized /\ last'.op = "loadModel" /\ "fetch" \in last'.calls)
       => /\ viewer.model \in engine'.children
          /\ viewer'.model = viewer.model
          /\ engine'.frames.current]_vars

\* C18: whenever a loaded model is attached and shown, the viewer's engine
\* has been created by a successful init() and the viewer is initialized.
C18_RenderedOnlyWhenInitialized ==
  Rendered
    => /\ viewer.scene # 0 /\ viewer.renderer # 0 /\ viewer.controls # 0
       /\ viewer.isInitialized

\* the overlay is displayed with the message init() writes when the engine
\* modules cannot be loaded
OverlayEngineError(v) ==
  /\ v.loadingDiv.display = "flex"
  /\ v.loadingDiv.textContent = "Failed to load 3D engine"
  /\ v.loadingDiv.color = "#f00"

\* in this step an init() (own or inside loadModel) ends because
\* loadThreeJS returned false
InitFailsOnModules ==
  /\ last'.op \in {"import", "timer"}
  /\ ~threeLoaded'
  /\ \E p \in DOMAIN procs : procs[p].kind # "preload" /\ p \notin DOMAIN procs'

\* C19: a step in which init() fails, because the engine modules could not
\* be loaded or because the renderer could not be created, leaves an error
\* message in the overlay and no engine object the viewer did not have.
C19_InitFailureRetainsNothing ==
  [][/\ InitFailsOnModules
          => /\ OverlayEngineError(viewer')
             /\ viewer'.scene = viewer.scene /\ viewer'.camera = viewer.camera
             /\ viewer'.renderer = viewer.renderer
     /\ last'.thrown
          => /\ (OverlayEngineError(viewer') \/ OverlayError(viewer'))
             /\ viewer'.scene = viewer.scene /\ viewer'.camera = viewer.camera
             /\ viewer'.renderer = viewer.renderer]_vars

\* the last initialization of a live viewer failed and none is under way
InitFailed ==
  /\ ~destroyed
  /\ ~viewer.isInitialized
  /\ OverlayEngineError(viewer) \/ (viewer.scene # 0 /\ viewer.renderer = 0)
  /\ \A p \in DOMAIN procs : procs[p].kind = "preload"

\* C20: a loadModel call on a viewer whose initialization failed attempts
\* the initialization again, whatever source it names: it waits for the
\* engine modules, or runs init() to its end (initialized, or failed again).
C20_LoadRetriesInit ==
  [][(InitFailed /\ last'.op = "loadModel")
       => \/ procs' # procs
          \/ last'.thrown
          \/ viewer'.isInitialized]_vars

\* C21: a parsed model is given a scale and position (and then attached)
\* only if its bounding box has a positive largest dimension; the scale is
\* never the result of a division by zero.
C21_DegenerateBoxRejected ==
  fit.placed
    => /\ Less(Num(0, 1), MaxDim(fit.box))
       /\ IsFinite(fit.transform.scale)

\* C22: a resize callback gives a size to the camera and the renderer only
\* when both reported dimensions are positive, the engine is set up and the
\* viewer has not been torn down; otherwise it touches neither.
C22_ResizeGuarded ==
  [][(pv'.last.op = "resize" /\ "renderer.setSize" \in pv'.last.calls) =>
       /\ pv'.size[1] > 0 /\ pv'.size[2] > 0
       /\ pv.viewer.renderer # 0
       /\ ~pv.removed]_vars

\* C23: the teardown step stops the frame loop, disconnects the resize
\* observer, releases the renderer and disposes the attached model; once the
\* viewer is torn down no resize callback reaches the camera or the renderer.
C23_TeardownReleasesAll ==
  [][/\ pv'.last.op = "onRemoved" =>
          /\ ~pv'.frames.current
          /\ pv'.observers = 0
          /\ (pv.viewer.renderer # 0 => "renderer.dispose" \in pv'.last.calls)
          /\ pv'.children \subseteq pv'.disposed
     /\ pv.removed => "renderer.setSize" \notin pv'.last.calls]_vars

\* C24: whenever no loadModel call is still running and a model is attached,
\* currentUrl is the source that model was loaded from.
C24_CurrentUrlIsDisplayed ==
  ((\A p \in DOMAIN procs : procs[p].kind # "load") /\ viewer.model # 0
     /\ viewer.model \in DOMAIN engine.loaded)
    => engine.loaded[viewer.model] = viewer.currentUrl

\* C25: in the preview, a step in which loadThreeJS returned normally ends
\* with THREE, OrbitControls and GLTFLoader all set.
C25_PreviewLoaderComplete ==
  pv.last.returned => (pv.THREE /\ pv.OrbitControls /\ pv.GLTFLoader)

\* C26: in the preview, no step made after the removal of the node issues a
\* render call, and the viewer never has more than one frame loop or more
\* than one scene.
C26_PreviewQuietAfterRemoval ==
  [][/\ pv.removed => "render" \notin pv'.last.calls
     /\ pv'.frames.stale = 0
     /\ pv'.viewer.scene <= 1]_vars

C28_NoDescriptorNoChange ==
  [][last'.op = "onExecuted" =>
       /\ last'.calls = {}
       /\ ~last'.thrown
       /\ UNCHANGED << viewer, engine, procs, nextId, viewers, bespokeViewer,
                       threeLoaded, threeLoading, destroyed >>]_vars

\* C28 witness: a message without descriptor has just been handled by a
\* node whose viewer shows a model
C28_Witness ==
  /\ last.op = "onExecuted"
  /\ Rendered
  /\ viewer.currentUrl # 0
  /\ engine.loaded[viewer.model] = viewer.currentUrl

\* the loadThreeJS calls that are inside the import sequence
Importing(ps) ==
  { p \in DOMAIN ps : ps[p].pc \in {"import1", "import2", "import3"} }

\* C30: at most one loadThreeJS call is inside the import sequence at any
\* time, and a call enters it only when threeLoading and threeLoaded are
\* both false.
C30_OneImportSequence ==
  [][/\ Cardinality(Importing(procs')) <= 1
     /\ Importing(procs') # {} => threeLoading'
     /\ Importing(procs') \ Importing(procs) # {}
          => (~threeLoading /\ ~threeLoaded)]_vars

\* C30 witness: after the preload failed, a later call runs the imports
\* while another call waits for it
C30_Witness ==
  /\ \E p \in Importing(procs) : p # PreloadId
  /\ \E q \in DOMAIN procs : procs[q].pc = "poll"
  /\ threeLoading

\* call p is inside loadThreeJS: waiting in the poll or running the imports
InLoadThreeJS(p) ==
  /\ p \in DOMAIN procs
  /\ procs[p].pc \in {"poll", "import1", "import2", "import3"}

Waiters == { p \in DOMAIN procs : procs[p].pc = "poll" }

\* every call inside loadThreeJS eventually returns
LoadThreeJSReturns == \A p \in CallIds : InLoadThreeJS(p) ~> ~InLoadThreeJS(p)

\* a waiting call that returns in this step acts on the value threeLoaded
\* holds, the result of the import sequence that finished last
WaiterGetsLastResult ==
  \A p \in Waiters :
    (p \notin DOMAIN procs' \/ procs'[p].pc # "poll") =>
       IF threeLoaded
         THEN viewer'.scene = viewer.scene + 1
         ELSE viewer'.loadingDiv.textContent = "Failed to load 3D engine"

\* an import sequence that fails leaves both flags false, so that the next
\* call runs the imports itself
FailureFreesLoader ==
  (Importing(procs) # {} /\ Importing(procs') = {} /\ ~threeLoaded')
     => (~threeLoading' /\ ("import1" = IF threeLoaded' THEN "loaded"
                                        ELSE IF threeLoading' THEN "poll"
                                        ELSE "import1"))

\* C29 (as stated): every loadThreeJS call eventually returns; a call that
\* waits on a load in progress returns once that load finishes, with its
\* result, so no other import sequence begins while it still waits; a
\* failed load leaves the loader free for a retry.
C29_LoaderReturns ==
  /\ LoadThreeJSReturns
  /\ [][/\ Importing(procs') \ Importing(procs) # {} => Waiters = {}
        /\ WaiterGetsLastResult
        /\ FailureFreesLoader]_vars

\* C29 (amended): every loadThreeJS call eventually returns; a waiting call
\* returns when its timer finds no load in progress, with the result of the
\* import sequence that finished last; a failed load leaves the loader free
\* for a retry.
C29_LoaderReturnsLastResult ==
  /\ LoadThreeJSReturns
  /\ [][WaiterGetsLastResult /\ FailureFreesLoader]_vars

\* C29 witness: a waiting call has just returned false after a failed load,
\* and the loader is free again
C29_Witness ==
  /\ last.op = "timer"
  /\ viewer.loadingDiv.textContent = "Failed to load 3D engine"
  /\ ~threeLoading /\ ~threeLoaded
  /\ PreloadId \notin DOMAIN procs

\* the loader's flags agree with the module globals
LoaderConsistent(loaded, loading, three, gltf, orbit) ==
  /\ loaded => (three /\ gltf /\ orbit)
  /\ ~(loaded /\ loading)

\* C31: in every state threeLoaded implies that THREE, GLTFLoader and
\* OrbitControls are set, threeLoaded and threeLoading are not both true,
\* and no step takes threeLoaded from true to false.
C31_LoadedIsStable ==
  [][/\ LoaderConsistent(threeLoaded, threeLoading, THREE, GLTFLoader, OrbitControls)
     /\ LoaderConsistent(threeLoaded', threeLoading', THREE', GLTFLoader', OrbitControls')
     /\ threeLoaded => threeLoaded']_vars

\* C31 witness: the last import has just succeeded in a call that is not
\* the module preload (a retry after the preload failed), and that call's
\* init() ran to the end
C31_Witness ==
  /\ threeLoaded /\ ~threeLoading
  /\ THREE /\ GLTFLoader /\ OrbitControls
  /\ last.op = "import"
  /\ viewer.isInitialized

=============================================================================
